---- MODULE Spec2Model ----
(***************************************************************************)
(* Railsichord.ino: a touch-resistance sensor polled in a fixed-period     *)
(* loop drives a single-voice MIDI synthesizer.  The model follows the     *)
(* sketch statement by statement: setup() sends the three one-time MIDI    *)
(* messages, loop() samples the ADC, runs processSensorReading() and       *)
(* pauses.  The MIDI stream is kept as the sequence of messages written by *)
(* talkMIDI, each message being the bytes it writes.                       *)
(***************************************************************************)
EXTENDS Integers, Sequences, FiniteSets, TLC

(***************************************************************************)
(* Macros of the sketch.                                                   *)
(***************************************************************************)
SENSOR_HYSTERESIS == 15
LOWEST_NOTE == 48
HIGHEST_NOTE == 96
MY_INSTRUMENT == 1
NOISE_FLOOR == 925
VELOCITY == 100
VOLUME == 110
PROG_CHANGE == 192
CONT_CHANGE == 176
NOTE_ON == 144
ALL_OFF == 123
BANK_SELECT == 0
CHANNEL_VOL == 7
MELODIC_BANK == 121

\* Full scale of the 10-bit ADC: analogRead returns 0..1023 ("out of 1023").
SensorMax == 1023
\* unsigned int is 16 bits wide on the AVR boards the sketch is written for.
UIntModulus == 65536
\* byte is 8 bits wide.
ByteModulus == 256

(***************************************************************************)
(* Bounds of the model.                                                    *)
(***************************************************************************)
\* Loop iterations explored by Spec and WideSpec.
MaxTicks == 3
\* Loop iterations explored by SweepSpec; the last one sweeps the ADC range.
SweepTicks == 2

\* Readings the sampler delivers in Spec: the ends of the ADC range, both
\* sides of the hysteresis threshold around 0 and around 300, both sides of
\* the noise floor, and readings above the noise floor less than a threshold
\* apart.
Readings ==
    {0, 14, 15, 285, 286, 295, 300, 305, 314, 315, 925, 926, 940, 950, 960, 1023}

\* Values sensorBuffer can hold that no 10-bit conversion produces.
OutOfRange == {SensorMax + 1, 2000, 40000, UIntModulus - 1}

\* Readings of WideSpec: those of Spec and the out-of-range ones.
WideReadings == Readings \cup OutOfRange

\* Readings of SweepSpec at loop iteration n (counted from 0).
SweepReadings(n) == IF n = SweepTicks - 1 THEN 0 .. SensorMax ELSE Readings

(***************************************************************************)
(* C arithmetic.                                                           *)
(***************************************************************************)
\* Conversion to unsigned int: reduction modulo 2^16.
ToUInt(x) == x % UIntModulus

\* Conversion to byte: reduction modulo 2^8.
ToByte(x) == x % ByteModulus

\* C integer division, which truncates toward zero (d > 0).
CDiv(n, d) == IF n >= 0 THEN n \div d ELSE -((-n) \div d)

\* abs() of the difference taken as a signed 16-bit int.
abs_signed(x) == IF x >= UIntModulus \div 2 THEN UIntModulus - x ELSE x

\* The Arduino macro abs(x) ((x)>0?(x):-(x)) applied to an unsigned int: the
\* negation is taken modulo 2^16 as well.
abs(x) == IF x > 0 THEN x ELSE ToUInt(-x)

\* map() dividing with rounding toward minus infinity instead of toward zero.
map_floorDiv(x, in_min, in_max, out_min, out_max) ==
    ((x - in_min) * (out_max - out_min)) \div (in_max - in_min) + out_min

\* map() with its product computed in 16-bit int instead of long.
map_int16(x, in_min, in_max, out_min, out_max) ==
    LET half == UIntModulus \div 2
        product == (((x - in_min) * (out_max - out_min) + half) % UIntModulus) - half
    IN  CDiv(product, in_max - in_min) + out_min

\* The Arduino function map(), computed in long arithmetic:
\* (x - in_min) * (out_max - out_min) / (in_max - in_min) + out_min.
map(x, in_min, in_max, out_min, out_max) ==
    CDiv((x - in_min) * (out_max - out_min), in_max - in_min) + out_min

(***************************************************************************)
(* MIDI output.                                                            *)
(***************************************************************************)
\* talkMIDI() writing the second data byte for every command.
talkMIDI_alwaysThree(cmd, data1, data2) ==
    <<ToByte(cmd), ToByte(data1), ToByte(data2)>>

\* talkMIDI(cmd, data1, data2): the bytes one call writes to MIDIserial.
talkMIDI(cmd, data1, data2) ==
    IF ToByte(cmd) # PROG_CHANGE
    THEN <<ToByte(cmd), ToByte(data1), ToByte(data2)>>
    ELSE <<ToByte(cmd), ToByte(data1)>>

\* playNote() passing the velocity and the note in each other's place.
playNote_swappedData(note) ==
    << talkMIDI(CONT_CHANGE, ALL_OFF, 0), talkMIDI(NOTE_ON, VELOCITY, note) >>

\* playNote() sounding the note before silencing all notes.
playNote_onThenOff(note) ==
    << talkMIDI(NOTE_ON, note, VELOCITY), talkMIDI(CONT_CHANGE, ALL_OFF, 0) >>

\* playNote(note): the messages it writes, in order.
playNote(note) ==
    << talkMIDI(CONT_CHANGE, ALL_OFF, 0), talkMIDI(NOTE_ON, note, VELOCITY) >>

\* setup_midi(): the one-time messages, in order.
setup_midi ==
    << talkMIDI(CONT_CHANGE, CHANNEL_VOL, VOLUME),
       talkMIDI(CONT_CHANGE, BANK_SELECT, MELODIC_BANK),
       talkMIDI(PROG_CHANGE, MY_INSTRUMENT, 0) >>

(***************************************************************************)
(* State.                                                                  *)
(***************************************************************************)
VARIABLES
    pc,            \* position of the single thread of control
    touchSensor,   \* the most recent accepted sensor value
    sensorBuffer,  \* the provisional sensor value
    midi,          \* messages written to MIDIserial so far
    samples        \* one record per analogRead: the value, touchSensor at that
                   \* moment and Len(midi) at that moment

vars == <<pc, touchSensor, sensorBuffer, midi, samples>>

\* touchSensor starting at the open-circuit end of the range instead of 0.
Init_seeded ==
    /\ pc = "setup"
    /\ touchSensor = SensorMax
    /\ sensorBuffer = 0
    /\ midi = <<>>
    /\ samples = <<>>

\* Globals are zero-initialised; nothing has been written or sampled.
Init ==
    /\ pc = "setup"
    /\ touchSensor = 0
    /\ sensorBuffer = 0
    /\ midi = <<>>
    /\ samples = <<>>

(***************************************************************************)
(* processSensorReading and its two tests.                                 *)
(***************************************************************************)
\* The hysteresis test accepting any change of the reading.
hysteresisExceeded_anyChange(buffer, touch) == abs(ToUInt(buffer - touch)) > 0

\* The hysteresis test with its comparison inverted.
hysteresisExceeded_atMost(buffer, touch) ==
    abs(ToUInt(buffer - touch)) <= SENSOR_HYSTERESIS

\* abs(sensorBuffer-touchSensor) >= SENSOR_HYSTERESIS, the subtraction being
\* an unsigned int subtraction.
hysteresisExceeded(buffer, touch) ==
    abs(ToUInt(buffer - touch)) >= SENSOR_HYSTERESIS

\* The noise-floor test excluding the noise floor itself.
belowNoiseFloor_strict(touch) == touch < NOISE_FLOOR

\* The noise-floor test against the full scale of the ADC.
belowNoiseFloor_fullScale(touch) == touch <= SensorMax

\* touchSensor <= NOISE_FLOOR
belowNoiseFloor(touch) == touch <= NOISE_FLOOR

\* The note computed with the output range not inverted.
noteFor_notInverted(touch) ==
    ToUInt(map(touch, 0, SensorMax, LOWEST_NOTE, HIGHEST_NOTE))

\* unsigned int note = map(touchSensor, 0, 1023, HIGHEST_NOTE, LOWEST_NOTE)
noteFor(touch) == ToUInt(map(touch, 0, SensorMax, HIGHEST_NOTE, LOWEST_NOTE))

\* processSensorReading() testing the noise floor before accepting the value.
processSensorReading_gateFirst ==
    IF hysteresisExceeded(sensorBuffer, touchSensor) /\ belowNoiseFloor(sensorBuffer)
    THEN /\ touchSensor' = sensorBuffer
         /\ midi' = midi \o playNote(noteFor(sensorBuffer))
    ELSE /\ touchSensor' = touchSensor
         /\ midi' = midi

processSensorReading ==
    IF hysteresisExceeded(sensorBuffer, touchSensor)
    THEN /\ touchSensor' = sensorBuffer
         /\ IF belowNoiseFloor(sensorBuffer)
            THEN midi' = midi \o playNote(noteFor(sensorBuffer))
            ELSE midi' = midi
    ELSE /\ touchSensor' = touchSensor
         /\ midi' = midi

(***************************************************************************)
(* setup() and the three statements of loop().                             *)
(***************************************************************************)
setup ==
    /\ pc = "setup"
    /\ midi' = midi \o setup_midi
    /\ pc' = "read"
    /\ UNCHANGED <<touchSensor, sensorBuffer, samples>>

\* sensorBuffer = analogRead(SENSOR_PIN), the conversion delivering raw.
loopRead(raw) ==
    /\ pc = "read"
    /\ sensorBuffer' = ToUInt(raw)
    /\ samples' = Append(samples,
                         [raw |-> ToUInt(raw), prev |-> touchSensor, at |-> Len(midi)])
    /\ pc' = "process"
    /\ UNCHANGED <<touchSensor, midi>>

loopProcess ==
    /\ pc = "process"
    /\ processSensorReading
    /\ pc' = "delay"
    /\ UNCHANGED <<sensorBuffer, samples>>

\* sensorBuffer = analogRead(SENSOR_PIN) with the record of the earlier loop
\* iterations dropped: samples and midi then hold the current iteration only.
\* Neither is read by the sketch, so its steps are the same.
loopReadForgetful(raw) ==
    /\ pc = "read"
    /\ sensorBuffer' = ToUInt(raw)
    /\ samples' = <<[raw |-> ToUInt(raw), prev |-> touchSensor, at |-> 0]>>
    /\ midi' = <<>>
    /\ pc' = "process"
    /\ UNCHANGED touchSensor

\* delay() never returning, or loop() not being entered again.
loopDelay_halts ==
    /\ pc = "delay"
    /\ pc' = "halted"
    /\ UNCHANGED <<touchSensor, sensorBuffer, midi, samples>>

\* loop() entered again after its first statement: the reading is taken once.
loopDelay_noResample ==
    /\ pc = "delay"
    /\ pc' = "process"
    /\ UNCHANGED <<touchSensor, sensorBuffer, midi, samples>>

\* The one-time messages sent from loop() instead of setup().
loopDelay_setupAgain ==
    /\ pc = "delay"
    /\ pc' = "setup"
    /\ UNCHANGED <<touchSensor, sensorBuffer, midi, samples>>

\* delay(SIXTEENTH_NOTE_MS), after which loop() is entered again.
loopDelay ==
    /\ pc = "delay"
    /\ pc' = "read"
    /\ UNCHANGED <<touchSensor, sensorBuffer, midi, samples>>

Sample == \E raw \in Readings : Len(samples) < MaxTicks /\ loopRead(raw)

WideSample == \E raw \in WideReadings : Len(samples) < MaxTicks /\ loopRead(raw)

SweepSample ==
    \E raw \in SweepReadings(Len(samples)) :
        Len(samples) < SweepTicks /\ loopRead(raw)

LiveSample == \E raw \in Readings : loopReadForgetful(raw)

LiveNext == setup \/ LiveSample \/ loopProcess \/ loopDelay

Next == setup \/ Sample \/ loopProcess \/ loopDelay

WideNext == setup \/ WideSample \/ loopProcess \/ loopDelay

SweepNext == setup \/ SweepSample \/ loopProcess \/ loopDelay

\* The sketch with readings from Readings.
Spec == Init /\ [][Next]_vars

\* The sketch with readings that may lie outside the ADC range.
WideSpec == Init /\ [][WideNext]_vars

\* The sketch with the last reading ranging over the whole ADC range.
SweepSpec == Init /\ [][SweepNext]_vars

\* The sketch running without end: the single thread of control always takes
\* its next step (analogRead and delay return, nothing blocks).
LiveSpec ==
    /\ Init
    /\ [][LiveNext]_vars
    /\ WF_vars(setup)
    /\ WF_vars(LiveSample)
    /\ WF_vars(loopProcess)
    /\ WF_vars(loopDelay)

(***************************************************************************)
(* Observations on the recorded history, used to state the properties.     *)
(***************************************************************************)
\* Loop iterations whose processSensorReading has run.
DecidedTicks ==
    {i \in 1 .. Len(samples) : i < Len(samples) \/ pc # "process"}

\* The messages written during loop iteration i.
TickOut(i) ==
    SubSeq(midi, samples[i].at + 1,
           IF i < Len(samples) THEN samples[i + 1].at ELSE Len(midi))

\* touchSensor when loop iteration i ends.
After(i) == IF i < Len(samples) THEN samples[i + 1].prev ELSE touchSensor

\* |a - b| over the integers.
Dist(a, b) == IF a >= b THEN a - b ELSE b - a

\* |raw - AcceptedValue| of loop iteration i, AcceptedValue as it was when
\* the reading was sampled.
Delta(i) == Dist(samples[i].raw, samples[i].prev)

IsNoteOn(m) == m[1] = NOTE_ON

IsAllOff(m) == m[1] = CONT_CHANGE /\ m[2] = ALL_OFF

\* Loop iteration i wrote an all-notes-off and then a note-on, and nothing else.
PlayedPair(i) ==
    /\ Len(TickOut(i)) = 2
    /\ TickOut(i)[1] = <<CONT_CHANGE, ALL_OFF, 0>>
    /\ Len(TickOut(i)[2]) = 3
    /\ IsNoteOn(TickOut(i)[2])

\* The note number carried by the note-on of loop iteration i.
NoteOf(i) == TickOut(i)[2][2]

\* Loop iteration i replaced touchSensor by its reading.
Accepted(i) == After(i) = samples[i].raw /\ samples[i].prev # samples[i].raw

Clamp(x) ==
    IF x < LOWEST_NOTE THEN LOWEST_NOTE
    ELSE IF x > HIGHEST_NOTE THEN HIGHEST_NOTE ELSE x

\* p / q rounded to the nearest integer (p >= 0, q > 0).
RoundNearest(p, q) == (2 * p + q) \div (2 * q)

\* round(HighestNote - raw * (HighestNote - LowestNote) / SensorMax)
RoundedNote(raw) ==
    RoundNearest(HIGHEST_NOTE * SensorMax - raw * (HIGHEST_NOTE - LOWEST_NOTE),
                 SensorMax)

\* HighestNote less the whole part of raw * (HighestNote - LowestNote) / SensorMax
TruncatedNote(raw) ==
    HIGHEST_NOTE - (raw * (HIGHEST_NOTE - LOWEST_NOTE)) \div SensorMax

(***************************************************************************)
(* Properties.                                                             *)
(***************************************************************************)

\* C1: a reading less than SENSOR_HYSTERESIS away from touchSensor, above or
\* below it, writes no MIDI message and leaves touchSensor unchanged.
C1_HysteresisReject ==
    \A i \in DecidedTicks :
        Delta(i) < SENSOR_HYSTERESIS =>
            TickOut(i) = <<>> /\ After(i) = samples[i].prev

\* C2: a reading at least SENSOR_HYSTERESIS away from touchSensor and above
\* NOISE_FLOOR becomes touchSensor and writes no MIDI message, so the next
\* reading is compared against it.
C2_AcceptBeforeNoiseGate ==
    \A i \in DecidedTicks :
        (Delta(i) >= SENSOR_HYSTERESIS /\ samples[i].raw > NOISE_FLOOR) =>
            After(i) = samples[i].raw /\ TickOut(i) = <<>>

\* A note sounded, then a reading above the noise floor was accepted in
\* silence, and the following reading was sampled against it and decided.
C2_Witness ==
    \E i \in DecidedTicks :
        /\ i > 1 /\ i + 1 \in DecidedTicks
        /\ PlayedPair(i - 1)
        /\ Delta(i) >= SENSOR_HYSTERESIS /\ samples[i].raw > NOISE_FLOOR
        /\ samples[i + 1].prev = samples[i].raw
        /\ samples[i + 1].prev # samples[i - 1].raw

\* C3: a reading at least SENSOR_HYSTERESIS away from touchSensor and not
\* above NOISE_FLOOR becomes touchSensor and writes exactly one all-notes-off
\* followed by one note-on of velocity VELOCITY in that loop iteration.
C3_PlayDecision ==
    \A i \in DecidedTicks :
        (Delta(i) >= SENSOR_HYSTERESIS /\ samples[i].raw <= NOISE_FLOOR) =>
            /\ After(i) = samples[i].raw
            /\ PlayedPair(i)
            /\ TickOut(i)[2][3] = VELOCITY

\* A reading below a non-zero touchSensor, at least the threshold away, played.
C3_Witness ==
    \E i \in DecidedTicks :
        /\ samples[i].prev > samples[i].raw
        /\ Delta(i) >= SENSOR_HYSTERESIS /\ samples[i].raw <= NOISE_FLOOR
        /\ PlayedPair(i)

\* C4 (as stated): the note of an accepted reading in [0, NOISE_FLOOR] is
\* HighestNote - raw * (HighestNote - LowestNote) / SensorMax rounded to the
\* nearest integer and clamped to [LowestNote, HighestNote].
C4_NoteRoundedToNearest ==
    \A i \in DecidedTicks :
        (Accepted(i) /\ samples[i].raw <= NOISE_FLOOR) =>
            PlayedPair(i) /\ NoteOf(i) = Clamp(RoundedNote(samples[i].raw))

\* C4 (amended): the note of an accepted reading in [0, NOISE_FLOOR] is
\* HighestNote less the whole part of raw * (HighestNote - LowestNote) /
\* SensorMax, which lies within [LowestNote, HighestNote] without clamping.
C4_NoteTruncated ==
    \A i \in DecidedTicks :
        (Accepted(i) /\ samples[i].raw <= NOISE_FLOOR) =>
            /\ PlayedPair(i)
            /\ NoteOf(i) = TruncatedNote(samples[i].raw)
            /\ NoteOf(i) = Clamp(NoteOf(i))

\* An accepted reading below the threshold whose note is not the nearest one.
C4_Witness ==
    \E i \in DecidedTicks :
        /\ Accepted(i) /\ samples[i].raw < SENSOR_HYSTERESIS
        /\ PlayedPair(i)
        /\ NoteOf(i) # RoundedNote(samples[i].raw)

\* C5: in the MIDI stream every note-on is immediately preceded by an
\* all-notes-off, and every all-notes-off is immediately followed by a note-on.
C5_OffThenOnPairs ==
    \A k \in 1 .. Len(midi) :
        /\ IsNoteOn(midi[k]) => (k > 1 /\ IsAllOff(midi[k - 1]))
        /\ IsAllOff(midi[k]) => (k < Len(midi) /\ IsNoteOn(midi[k + 1]))

\* Two notes have been played after the setup messages.
C5_Witness ==
    /\ pc # "setup"
    /\ Cardinality({k \in 1 .. Len(midi) : IsNoteOn(midi[k])}) >= 2
    /\ Cardinality({k \in 1 .. Len(midi) : IsAllOff(midi[k])}) >= 2

\* C6: a loop iteration whose reading is above NOISE_FLOOR writes no note-on,
\* whatever touchSensor was.
C6_NoNoteAboveNoiseFloor ==
    \A i \in DecidedTicks :
        samples[i].raw > NOISE_FLOOR =>
            \A k \in 1 .. Len(TickOut(i)) : ~IsNoteOn(TickOut(i)[k])

\* A reading above the noise floor passed the hysteresis test after a note.
C6_Witness ==
    \E i \in DecidedTicks :
        /\ i > 1 /\ PlayedPair(i - 1)
        /\ samples[i].raw > NOISE_FLOOR
        /\ Accepted(i)

\* C7: every note-on written carries a note number in [LOWEST_NOTE,
\* HIGHEST_NOTE], also after readings outside [0, SensorMax].
C7_NoteRange ==
    \A k \in 1 .. Len(midi) :
        IsNoteOn(midi[k]) => midi[k][2] \in LOWEST_NOTE .. HIGHEST_NOTE

\* A reading outside the ADC range was accepted and a note was played later.
C7_Witness ==
    \E i \in DecidedTicks :
        /\ samples[i].raw > SensorMax
        /\ Accepted(i)
        /\ i + 1 \in DecidedTicks /\ PlayedPair(i + 1)

\* C8: touchSensor is the most recent reading that was at least
\* SENSOR_HYSTERESIS away from touchSensor as it was when the reading was
\* sampled, or 0 when there is none.
C8_AcceptedValueHistory ==
    LET far == {i \in DecidedTicks : Delta(i) >= SENSOR_HYSTERESIS}
        last == CHOOSE i \in far : \A j \in far : j <= i
    IN  touchSensor = IF far = {} THEN 0 ELSE samples[last].raw

\* C9: of two played readings, the smaller one never got the lower note.
C9_NoteMonotone ==
    \A i, j \in DecidedTicks :
        (PlayedPair(i) /\ PlayedPair(j) /\ samples[i].raw <= samples[j].raw) =>
            NoteOf(i) >= NoteOf(j)

\* Two played readings with different notes, the later reading the smaller.
C9_Witness ==
    \E i, j \in DecidedTicks :
        /\ i > j /\ PlayedPair(i) /\ PlayedPair(j)
        /\ samples[i].raw < samples[j].raw
        /\ NoteOf(i) > NoteOf(j)

\* C10: a loop iteration whose reading equals the previous reading, or equals
\* touchSensor, writes no MIDI message and leaves touchSensor unchanged.
C10_RepeatSuppressed ==
    \A i \in DecidedTicks :
        ((i > 1 /\ samples[i].raw = samples[i - 1].raw)
            \/ samples[i].raw = samples[i].prev) =>
            TickOut(i) = <<>> /\ After(i) = samples[i].prev

\* The same reading twice in a row, the first occurrence having played.
C10_Witness ==
    \E i \in DecidedTicks :
        /\ i > 1 /\ samples[i].raw = samples[i - 1].raw
        /\ PlayedPair(i - 1)
        /\ samples[i].prev = samples[i].raw

\* C11: an accepted reading of 0 plays exactly HIGHEST_NOTE, and a reading of
\* SensorMax never writes a MIDI message.
C11_RemapBoundary ==
    \A i \in DecidedTicks :
        /\ (Accepted(i) /\ samples[i].raw = 0) =>
               PlayedPair(i) /\ NoteOf(i) = HIGHEST_NOTE
        /\ samples[i].raw = SensorMax => TickOut(i) = <<>>

\* A reading of SensorMax was accepted in silence and a reading of 0 played.
C11_Witness ==
    \E i, j \in DecidedTicks :
        /\ samples[i].raw = SensorMax /\ Accepted(i)
        /\ samples[j].raw = 0 /\ Accepted(j) /\ PlayedPair(j)

\* C12: the stream begins with the channel-volume, bank-select and program-
\* change messages in that order, written before the first sample; nothing is
\* written before them and none of them is written again.
C12_SetupOnce ==
    LET volume == <<CONT_CHANGE, CHANNEL_VOL, VOLUME>>
        bank == <<CONT_CHANGE, BANK_SELECT, MELODIC_BANK>>
        program == <<PROG_CHANGE, MY_INSTRUMENT>>
    IN  IF pc = "setup"
        THEN midi = <<>> /\ samples = <<>>
        ELSE /\ Len(midi) >= 3
             /\ midi[1] = volume /\ midi[2] = bank /\ midi[3] = program
             /\ \A k \in 4 .. Len(midi) :
                    /\ midi[k] \notin {volume, bank, program}
                    /\ IsAllOff(midi[k]) \/ IsNoteOn(midi[k])
             /\ \A i \in 1 .. Len(samples) : samples[i].at >= 3

\* The polling loop has sampled twice and played twice after setup.
C12_Witness ==
    /\ pc = "delay"
    /\ Len(samples) >= 2
    /\ PlayedPair(1) /\ PlayedPair(2)

\* C13: every step from the top of the loop takes one new sample and nothing
\* else; the next step decides on exactly that sample, not yet decided, and
\* writes nothing or one all-notes-off / note-on pair; the next step is the
\* pause, which leads back to the top of the loop.
C13_OneDecisionPerTick ==
    [][ /\ pc = "setup" => pc' = "read" /\ samples = <<>> /\ samples' = <<>>
        /\ pc = "read" =>
               /\ pc' = "process"
               /\ Len(samples') = Len(samples) + 1
               /\ SubSeq(samples', 1, Len(samples)) = samples
               /\ sensorBuffer' = samples'[Len(samples')].raw
               /\ UNCHANGED <<touchSensor, midi>>
        /\ pc = "process" =>
               /\ pc' = "delay"
               /\ sensorBuffer = samples[Len(samples)].raw
               /\ touchSensor = samples[Len(samples)].prev
               /\ Len(midi) = samples[Len(samples)].at
               /\ UNCHANGED <<sensorBuffer, samples>>
               /\ \/ midi' = midi
                  \/ /\ Len(midi') = Len(midi) + 2
                     /\ SubSeq(midi', 1, Len(midi)) = midi
                     /\ IsAllOff(midi'[Len(midi) + 1])
                     /\ IsNoteOn(midi'[Len(midi) + 2])
        /\ pc = "delay" =>
               /\ pc' = "read"
               /\ Len(samples) \in DecidedTicks
               /\ UNCHANGED <<touchSensor, sensorBuffer, midi, samples>>
      ]_vars

\* Three loop iterations have run: one played, one rejected its reading.
C13_Witness ==
    /\ pc = "delay"
    /\ Len(samples) >= 3
    /\ \E i, j \in DecidedTicks :
           PlayedPair(i) /\ TickOut(j) = <<>> /\ After(j) = samples[j].prev

\* C14: after setup some step of the loop is always possible, and a new
\* sample is taken again and again.
C14_LoopRunsForever ==
    /\ [](pc # "setup" => ENABLED <<LiveNext>>_vars)
    /\ []<><<LiveSample>>_vars

\* A loop iteration that rejected its reading, after an earlier one had
\* accepted a reading above the noise floor: two iterations and no note.
C14_Witness ==
    /\ pc = "delay"
    /\ touchSensor > NOISE_FLOOR
    /\ sensorBuffer # touchSensor
    /\ midi = <<>>

\* The readings of the scenario of C15, in order.
Scenario == <<300, 305, 950>>

\* The first loop iterations delivered the readings of the scenario, as far
\* as they have run.
FollowsScenario ==
    /\ samples # <<>>
    /\ \A i \in 1 .. Len(samples) :
           i <= Len(Scenario) => samples[i].raw = Scenario[i]

\* C15: from touchSensor = 0 the readings 300, 305, 950 give: first iteration
\* all-notes-off then note-on 82 and touchSensor = 300; second iteration
\* nothing and touchSensor = 300; third iteration nothing and touchSensor = 950.
C15_Scenario ==
    FollowsScenario =>
        /\ samples[1].prev = 0
        /\ 1 \in DecidedTicks =>
               /\ TickOut(1) = << <<176, 123, 0>>, <<144, 82, 100>> >>
               /\ After(1) = 300
        /\ 2 \in DecidedTicks => TickOut(2) = <<>> /\ After(2) = 300
        /\ 3 \in DecidedTicks => TickOut(3) = <<>> /\ After(3) = 950

\* The three readings of the scenario have been sampled and decided.
C15_Witness ==
    /\ FollowsScenario
    /\ Len(samples) = Len(Scenario)
    /\ pc = "delay"

C17_NoiseFloorBoundary ==
    \A i \in DecidedTicks :
        Accepted(i) =>
            /\ samples[i].raw <= NOISE_FLOOR => PlayedPair(i)
            /\ samples[i].raw > NOISE_FLOOR => TickOut(i) = <<>>
            /\ samples[i].raw = 925 => PlayedPair(i)
            /\ samples[i].raw = 926 => TickOut(i) = <<>>

\* A reading of 925 was accepted and played, one of 926 accepted in silence.
C17_Witness ==
    \E i, j \in DecidedTicks :
        /\ Accepted(i) /\ samples[i].raw = NOISE_FLOOR /\ PlayedPair(i)
        /\ Accepted(j) /\ samples[j].raw = NOISE_FLOOR + 1 /\ TickOut(j) = <<>>

\* C18: the first reading r is compared against 0: with SENSOR_HYSTERESIS <= r
\* <= NOISE_FLOOR it plays; with r < SENSOR_HYSTERESIS nothing is written and
\* touchSensor stays 0; with r > NOISE_FLOOR nothing is written and
\* touchSensor becomes r.
C18_FirstReading ==
    (samples # <<>>) =>
        LET r == samples[1].raw
        IN  /\ samples[1].prev = 0
            /\ 1 \in DecidedTicks =>
                   /\ (SENSOR_HYSTERESIS <= r /\ r <= NOISE_FLOOR) =>
                          PlayedPair(1) /\ After(1) = r
                   /\ r < SENSOR_HYSTERESIS =>
                          TickOut(1) = <<>> /\ After(1) = 0
                   /\ r > NOISE_FLOOR =>
                          TickOut(1) = <<>> /\ After(1) = r

\* The first loop iteration has played a note.
C18_Witness ==
    /\ Len(samples) = 1
    /\ pc = "delay"
    /\ PlayedPair(1)
    /\ midi[Len(midi)][2] = NoteOf(1)

\* The bytes of a sequence of messages, in the order written.
RECURSIVE Flatten(_)
Flatten(messages) ==
    IF messages = <<>> THEN <<>>
    ELSE Head(messages) \o Flatten(Tail(messages))

\* C19: a program change is written as two bytes and every other message as
\* three, and the byte stream is B0 07 6E, B0 00 79, C0 01 followed by
\* repetitions of B0 7B 00, 90 <note> 64.
C19_Framing ==
    LET bytes == Flatten(midi)
        pairs == (Len(bytes) - 8) \div 6
    IN  /\ \A k \in 1 .. Len(midi) :
               Len(midi[k]) = IF midi[k][1] = 192 THEN 2 ELSE 3
        /\ IF pc = "setup"
           THEN bytes = <<>>
           ELSE /\ Len(bytes) >= 8
                /\ SubSeq(bytes, 1, 8) = <<176, 7, 110, 176, 0, 121, 192, 1>>
                /\ Len(bytes) = 8 + 6 * pairs
                /\ \A j \in 0 .. pairs - 1 :
                       /\ SubSeq(bytes, 9 + 6 * j, 12 + 6 * j) = <<176, 123, 0, 144>>
                       /\ bytes[13 + 6 * j] \in 0 .. 127
                       /\ bytes[14 + 6 * j] = 100

\* The stream holds the setup bytes and the bytes of two notes.
C19_Witness ==
    /\ pc # "setup"
    /\ Len(Flatten(midi)) = 20

====
